---- MODULE Spec2Model ----
(***************************************************************************)
(* Numeric phase of Gustavson's C=A*B with a precomputed pattern           *)
(* (GB_AxB_Gustavson_nomask.c), and the ownership of the scalars held by   *)
(* execution-plan records (record.c).                                      *)
(***************************************************************************)
EXTENDS Integers, Sequences, FiniteSets, TLC

\* ------------------------------------------------------------------ bounds
VLen == 2       \* vlen(A) = vlen(C): length of the workspace
KDim == 4       \* vdim(A) = vlen(B): inner dimension
NCols == 2      \* vdim(B) = vdim(C): output columns
MaxNnzA == 2    \* stored entries of A
MaxNnzB == 3    \* stored entries of B
MaxExtra == 1   \* stored positions of C beyond the true product structure
NRec == 3       \* records
NEnt == 2       \* entries of a record (size of the mapping)

\* ------------------------------------------------------------ program data
MAGIC == 1      \* validity tag of a finalized matrix
MAGIC2 == MAGIC + 1     \* validity tag of a matrix whose pattern is not finalized

\* ------------------------------------------------------------------ helpers
Min(S) == CHOOSE m \in S : \A y \in S : m <= y

RECURSIVE SortedSeq(_)
\* the elements of a finite set of integers, ascending
SortedSeq(S) == IF S = {} THEN << >> ELSE <<Min(S)>> \o SortedSeq(S \ {Min(S)})

RECURSIVE Concat(_)
Concat(ss) == IF ss = << >> THEN << >> ELSE Head(ss) \o Concat(Tail(ss))

\* a sequence as a 0-based array
Arr(s) == [n \in 0..(Len(s) - 1) |-> s[n + 1]]

SubsetsUpTo(S, n) == {T \in SUBSET S : Cardinality(T) <= n}

\* --------------------------------------------------------------- semiring
\* The kernel is generic in the semiring. The model keeps the products as
\* terms and the accumulation as the ordered list of the terms added, so that
\* neither a missing, an extra nor a reordered accumulate step goes unseen.
IDENTITY == << >>
MULT(aik, bkj) == <<aik, bkj>>
\* faulty variant: the slot is overwritten by the term instead of accumulating it
ADD_overwrite(wi, t) == <<t>>
ADD(wi, t) == Append(wi, t)
\* content of a workspace slot or of a C value nobody has written yet
Garbage == << <<0, 0>> >>

\* value stored at A(i,k), B(k,j): distinct per position, never 0
AVal(i, k) == 1 + i + VLen * k
BVal(k, j) == 1 + k + KDim * j
\* value stored at a position of matrix who; C's value array holds nothing yet
CellVal(who, r, c) ==
    IF who = "A" THEN AVal(r, c) ELSE IF who = "B" THEN BVal(r, c) ELSE Garbage

\* ---------------------------------------------------------------- matrices
\* A pattern is a set of <<row, column>> pairs. Matrix builds the compressed
\* form: nvec stored vectors, h their column ids (hypersparse only), p the
\* pointers, i the row ids (ascending inside each vector), x the values.
ColRows(pat, j) == {e[1] : e \in {q \in pat : q[2] = j}}

Matrix(pat, vlen, vdim, hyper, who) ==
    LET vecs == IF hyper THEN {j \in 0..(vdim - 1) : ColRows(pat, j) # {}}
                ELSE 0..(vdim - 1)
        hs == SortedSeq(vecs)
        rows == [s \in 1..Len(hs) |-> SortedSeq(ColRows(pat, hs[s]))]
        vals == [s \in 1..Len(hs) |->
                    [n \in 1..Len(rows[s]) |-> CellVal(who, rows[s][n], hs[s])]]
    IN  [vlen |-> vlen, vdim |-> vdim, nvec |-> Len(hs), is_hyper |-> hyper,
         h |-> IF hyper THEN Arr(hs) ELSE Arr(<< >>),
         p |-> [s \in 0..Len(hs) |->
                    Cardinality({e \in pat : \E t \in 1..s : e[2] = hs[t]})],
         i |-> Arr(Concat(rows)),
         x |-> Arr(Concat(vals)),
         magic |-> MAGIC]

\* the structure of the true product: (i,j) with some k, A(i,k) and B(k,j) stored
Product(patA, patB) ==
    {e \in (0..(VLen - 1)) \X (0..(NCols - 1)) :
        \E k \in 0..(KDim - 1) : <<e[1], k>> \in patA /\ <<k, e[2]>> \in patB}

\* ------------------------------------------------------------------- state
VARIABLES
    A, B, C,            \* the matrices; C.x is the value array the kernel fills
    aliased,            \* C shares memory with A or B
    HYPER,              \* the template is compiled with HYPER defined
    w,                  \* the workspace, one slot per row of C
    pc,                 \* position of the kernel
    failed,             \* the ASSERT that aborted the call, or "none"
    jpos, j,            \* column loop: iteration number and column id
    pB_start, pB_end, pC_start, pC_end,
    pC, pB, pA, pA_end, \* the inner loops
    pleft, pright,      \* window into Ah
    \* history variables (observers, never read by the kernel)
    A0, B0, C0,         \* the matrices at entry
    wclr,               \* per slot: the column whose clear step last set it, or -1
    staleRead,          \* a slot was read that the current column had not cleared
    cxw,                \* per C position: number of writes of C.x
    cxlast,             \* last C position written, or -1
    cxorder,            \* the writes of C.x came in strictly increasing position
    nWw, nLoc,          \* workspace writes and locate calls so far
    nTouch,             \* workspace reads, workspace writes and locate calls so far
    trimmed,            \* GB_bracket_right was called for the current column
    probe,              \* last locate: <<k, pA_start, pA_end>>
    \* execution-plan records
    recs,               \* recs[r][idx]: the entries of record r
    freedRecs,          \* the records Record_FreeEntries has been called on
    freed               \* per heap allocation: how often it has been freed

rvars == <<recs, freedRecs, freed>>
inputs == <<A, B, aliased, HYPER, A0, B0, C0, rvars>>
cols == <<jpos, j, pB_start, pB_end, pC_start, pC_end>>
loops == <<pC, pB, pA, pA_end>>
window == <<pleft, pright, trimmed, probe>>
cxhist == <<cxw, cxlast, cxorder>>
whist == <<wclr, staleRead, nWw>>
vars == <<A, B, C, aliased, HYPER, w, pc, failed, jpos, j, pB_start, pB_end,
          pC_start, pC_end, pC, pB, pA, pA_end, pleft, pright, A0, B0, C0,
          wclr, staleRead, cxw, cxlast, cxorder, nWw, nLoc, nTouch, trimmed,
          probe, recs, freedRecs, freed>>

\* ------------------------------------------------------------------- inputs
PosA == (0..(VLen - 1)) \X (0..(KDim - 1))
PosB == (0..(KDim - 1)) \X (0..(NCols - 1))
PosC == (0..(VLen - 1)) \X (0..(NCols - 1))

\* ------------------------------------------------------------------ records
Recs == 1..NRec
Idxs == 0..(NEnt - 1)
\* the heap allocation behind the scalar record r holds at idx when it is built
AllocOf(r, idx) == (r - 1) * NEnt + idx + 1
Allocs == {AllocOf(r, idx) : r \in Recs, idx \in Idxs}

UnknownEntry == [type |-> "REC_TYPE_UNKNOWN", ptr |-> 0, allocation |-> "M_NONE"]
NodeEntry == [type |-> "REC_TYPE_NODE", ptr |-> 0, allocation |-> "M_NONE"]
ScalarEntry(a) == [type |-> "REC_TYPE_SCALAR", ptr |-> a, allocation |-> "M_SELF"]

\* no record in use (the kernel runs)
NoRecords ==
    /\ recs = [r \in Recs |-> [idx \in Idxs |-> UnknownEntry]]
    /\ freedRecs = {}
    /\ freed = [a \in Allocs |-> 0]

\* the matrices of a call; dv names a dimension of C or A that is one larger
\* than the contract allows ("none": the dimensions agree)
InputA(patA, ah, dv) ==
    Matrix(patA, VLen, IF dv = "Avdim" THEN KDim + 1 ELSE KDim, ah, "A")
InputB(patB, bh) == Matrix(patB, KDim, NCols, bh, "B")
InputC(patC, ch, dv, mg) ==
    LET c == Matrix(patC, IF dv = "Cvlen" THEN VLen + 1 ELSE VLen,
                    IF dv = "Cvdim" THEN NCols + 1 ELSE NCols, ch, "C")
    IN  [c EXCEPT !.magic = mg]

\* the state at entry of a call on a, b, c
Entry(a, b, c, hy, al) ==
    /\ A = a /\ B = b /\ C = c
    /\ A0 = a /\ B0 = b /\ C0 = c
    /\ aliased = al
    /\ HYPER = hy
    /\ w = [n \in 0..(c.vlen - 1) |-> Garbage]
    /\ wclr = [n \in 0..(c.vlen - 1) |-> -1]
    /\ pc = "entry" /\ failed = "none"
    /\ jpos = 0 /\ j = -1
    /\ pB_start = 0 /\ pB_end = 0 /\ pC_start = 0 /\ pC_end = 0
    /\ pC = 0 /\ pB = 0 /\ pA = 0 /\ pA_end = 0
    /\ pleft = 0 /\ pright = -1
    /\ staleRead = FALSE
    /\ cxw = [n \in DOMAIN c.x |-> 0]
    /\ cxlast = -1 /\ cxorder = TRUE
    /\ nWw = 0 /\ nLoc = 0 /\ nTouch = 0
    /\ trimmed = FALSE
    /\ probe = <<-1, -1, -1>>
    /\ NoRecords

\* Inputs that meet the contract of the numeric phase: well-formed A and B, and
\* a finalized C in the storage form of B whose pattern holds the structure of
\* the product and up to MaxExtra positions more. HYPER is defined exactly when
\* one of the matrices is hypersparse.
InitContract ==
    \E patA \in SubsetsUpTo(PosA, MaxNnzA), ah \in BOOLEAN :
        LET a == InputA(patA, ah, "none") IN
        \E patB \in SubsetsUpTo(PosB, MaxNnzB), bh \in BOOLEAN :
            LET b == InputB(patB, bh)
                prod == Product(patA, patB) IN
            \E patC \in {prod \cup extra : extra \in SubsetsUpTo(PosC, MaxExtra)} :
                Entry(a, b, InputC(patC, bh, "none", MAGIC), ah \/ bh, FALSE)

\* Inputs of a caller that breaks the contract, or whose C is not in the storage
\* form of B: aliased buffers, a dimension of C or A one too large, a C whose
\* pattern is not finalized.
InitOther ==
    \E patA \in SubsetsUpTo(PosA, 1), patB \in SubsetsUpTo(PosB, 1),
       ah, bh, ch, al \in BOOLEAN, dv \in {"none", "Cvdim", "Cvlen", "Avdim"},
       mg \in {MAGIC, MAGIC2} :
        /\ al \/ dv # "none" \/ mg # MAGIC \/ ch # bh
        /\ Entry(InputA(patA, ah, dv), InputB(patB, bh),
                 InputC(Product(patA, patB), ch, dv, mg), ah \/ bh \/ ch, al)

Init == InitContract \/ InitOther

\* ------------------------------------------------------------------ locator
RECURSIVE GB_BINARY_TRIM_SEARCH(_, _, _, _)
\* binary search of X [pl..pr] for i: the pair <<pleft, pright>> it ends with
GB_BINARY_TRIM_SEARCH(i, X, pl, pr) ==
    IF pl < pr
    THEN LET pmiddle == (pl + pr) \div 2
         IN  IF X[pmiddle] < i
             THEN GB_BINARY_TRIM_SEARCH(i, X, pmiddle + 1, pr)
             ELSE GB_BINARY_TRIM_SEARCH(i, X, pl, pmiddle)
    ELSE <<pl, pr>>

\* the new right bound: no slot of X [pl..pr] past it holds an id <= imax
GB_bracket_right(imax, X, pl, pr) ==
    IF pr < pl THEN pr
    ELSE LET q == GB_BINARY_TRIM_SEARCH(imax, X, pl, pr)[1]
         IN  IF X[q] > imax THEN q - 1 ELSE q

\* find vector k of a matrix: <<pleft after the search, pstart, pend>>
GB_lookup(is_hyper, Xh, Xp, pl, pr, k) ==
    IF is_hyper
    THEN LET q == GB_BINARY_TRIM_SEARCH(k, Xh, pl, pr)
             found == q[1] = q[2] /\ Xh[q[1]] = k
         IN  IF found THEN <<q[1], Xp[q[1]], Xp[q[1] + 1]>>
             ELSE <<q[1], -1, -1>>
    ELSE <<pl, Xp[k], Xp[k + 1]>>

\* ----------------------------------------------------------- column iterator
VecIds(M) == IF M.is_hyper THEN {M.h[s] : s \in DOMAIN M.h} ELSE 0..(M.vdim - 1)

\* for_each_vector2 (B, C): the vectors of B and of C, merged, ascending
IterVecs == SortedSeq(VecIds(B) \cup VecIds(C))

\* GBI2_initj: the range of vector jj in M, empty when M does not store it
VecRange(M, jj) ==
    IF M.is_hyper
    THEN IF \E s \in DOMAIN M.h : M.h[s] = jj
         THEN LET s == CHOOSE s \in DOMAIN M.h : M.h[s] = jj
              IN  <<M.p[s], M.p[s + 1]>>
         ELSE <<-1, -1>>
    ELSE <<M.p[jj], M.p[jj + 1]>>

\* number of iterations of the column loop, and the column of iteration n
NIter == IF HYPER THEN Len(IterVecs) ELSE C.vdim
ColOf(n) == IF HYPER THEN IterVecs[n + 1] ELSE n

\* -------------------------------------------------------------------- kernel
\* check inputs, get A and B, get C (lines 21-47). The last check is written
\* as an assignment: it stores MAGIC in C->magic and its value is never zero.
CheckFail ==
    IF aliased THEN "aliased"
    ELSE IF C.vdim # B.vdim THEN "vdim"
    ELSE IF C.vlen # A.vlen THEN "vlen"
    ELSE IF A.vdim # B.vlen THEN "inner"
    ELSE IF ~(C.nvec <= B.nvec) THEN "nvec"
    ELSE IF MAGIC = 0 THEN "magic"
    ELSE "none"

CheckInputs ==
    /\ pc = "entry"
    /\ failed' = CheckFail
    /\ pc' = IF CheckFail = "none" THEN "col" ELSE "abort"
    /\ C' = IF CheckFail \in {"none", "magic"} THEN [C EXCEPT !.magic = MAGIC] ELSE C
    /\ UNCHANGED <<inputs, w, cols, loops, window, cxhist, whist, nLoc, nTouch>>

\* faulty variant: the skip tests B's range instead of C's
SkipColumn_onB(rb, rc) == rb[2] = rb[1]
\* pC_end == pC_start (line 76): C(:,j) is empty
SkipColumn(rb, rc) == rc[2] = rc[1]

\* faulty variant: the operands of the subtraction swapped
Bjnz_swapped(rb) == rb[1] - rb[2]
\* bjnz (line 77)
Bjnz(rb) == rb[2] - rb[1]

\* get C(:,j) and skip if empty (lines 54-78)
NextColumn ==
    /\ pc = "col"
    /\ IF jpos >= NIter
       THEN /\ pc' = "done"
            /\ UNCHANGED <<cols, pC, failed, nTouch>>
       ELSE LET jj == ColOf(jpos)
                rb == VecRange(B, jj)
                rc == VecRange(C, jj)
                bjnz == Bjnz(rb)
            IN  /\ j' = jj
                /\ pB_start' = rb[1] /\ pB_end' = rb[2]
                /\ pC_start' = rc[1] /\ pC_end' = rc[2]
                /\ nTouch' = nTouch
                /\ IF SkipColumn(rb, rc)
                   THEN jpos' = jpos + 1 /\ pc' = "col" /\ UNCHANGED <<pC, failed>>
                   ELSE IF ~(bjnz > 0)
                   THEN jpos' = jpos /\ pc' = "abort" /\ failed' = "bjnz" /\ pC' = pC
                   ELSE jpos' = jpos /\ pc' = "clear" /\ pC' = rc[1] /\ failed' = failed
    /\ UNCHANGED <<C, inputs, w, pB, pA, pA_end, window, cxhist, whist, nLoc>>

\* faulty variant: every clear step sets the slot of the column's first position
ClearSlot_first == C.i[pC_start]
\* Ci [pC] (line 87): the slot the clear step sets
ClearSlot == C.i[pC]

\* clear w (lines 84-88), one position of C(:,j) per step
ClearW ==
    /\ pc = "clear"
    /\ pC < pC_end
    /\ w' = [w EXCEPT ![ClearSlot] = IDENTITY]
    /\ wclr' = [wclr EXCEPT ![ClearSlot] = j]
    /\ nWw' = nWw + 1
    /\ nTouch' = nTouch + 1
    /\ pC' = pC + 1
    /\ IF pC + 1 < pC_end
       THEN pc' = "clear" /\ pB' = pB
       ELSE IF HYPER
       THEN pc' = "trim" /\ pB' = pB
       ELSE pc' = "lookup" /\ pB' = pB_start
    /\ UNCHANGED <<C, inputs, failed, cols, pA, pA_end, window, cxhist, staleRead, nLoc>>

\* faulty variant: the threshold one too low
TrimCond_low(bjnz) == A.is_hyper /\ bjnz > 1
\* A_is_hyper && bjnz > 2 (line 94)
TrimCond(bjnz) == A.is_hyper /\ bjnz > 2

\* faulty variant: trims to the first row id of B(:,j) instead of the last
TrimKey_first == B.i[pB_start]
\* Bi [pB_end-1] (line 97): the last row id of B(:,j)
TrimKey == B.i[pB_end - 1]

\* trim Ah on right (lines 90-99), HYPER only
TrimAh ==
    /\ pc = "trim"
    /\ LET bjnz == pB_end - pB_start
           trim == TrimCond(bjnz)
       IN  /\ pleft' = 0
           /\ pright' = IF trim
                        THEN GB_bracket_right(TrimKey, A.h, 0, A.nvec - 1)
                        ELSE A.nvec - 1
           /\ trimmed' = trim
    /\ pB' = pB_start
    /\ pc' = "lookup"
    /\ UNCHANGED <<C, inputs, w, failed, cols, pC, pA, pA_end, probe, cxhist, whist,
                   nLoc, nTouch>>

\* where the loop over B(:,j) goes after entry pB: <<pc, pB, pC>>
AfterB == IF pB + 1 < pB_end THEN <<"lookup", pB + 1, pC>>
          ELSE <<"gather", pB + 1, pC_start>>

\* get B(k,j) and A(:,k) (lines 113-125)
Lookup ==
    /\ pc = "lookup"
    /\ pB < pB_end
    /\ LET k == B.i[pB]
           r == IF HYPER THEN GB_lookup(A.is_hyper, A.h, A.p, pleft, pright, k)
                ELSE <<pleft, A.p[k], A.p[k + 1]>>
       IN  /\ pleft' = r[1]
           /\ probe' = <<k, r[2], r[3]>>
           /\ IF r[2] = r[3]
              THEN /\ pc' = AfterB[1] /\ pB' = AfterB[2] /\ pC' = AfterB[3]
                   /\ UNCHANGED <<pA, pA_end>>
              ELSE /\ pc' = "multadd" /\ pA' = r[2] /\ pA_end' = r[3]
                   /\ UNCHANGED <<pB, pC>>
    /\ nLoc' = nLoc + 1
    /\ nTouch' = nTouch + 1
    /\ UNCHANGED <<C, inputs, w, failed, cols, pright, trimmed, cxhist, whist>>

\* w [i] += A(i,k) * B(k,j) (lines 134-139), one entry of A(:,k) per step
MultAdd ==
    /\ pc = "multadd"
    /\ pA < pA_end
    /\ LET i == A.i[pA]
       IN  /\ w' = [w EXCEPT ![i] = ADD(w[i], MULT(A.x[pA], B.x[pB]))]
           /\ staleRead' = (staleRead \/ wclr[i] # j)
    /\ nWw' = nWw + 1
    /\ nTouch' = nTouch + 1
    /\ pA' = pA + 1
    /\ IF pA + 1 < pA_end
       THEN UNCHANGED <<pc, pB, pC>>
       ELSE pc' = AfterB[1] /\ pB' = AfterB[2] /\ pC' = AfterB[3]
    /\ UNCHANGED <<C, inputs, failed, cols, pA_end, window, cxhist, wclr, nLoc>>

\* faulty variant: every gather step writes the column's first position
GatherDst_first == pC_start
\* the position of Cx the gather step writes (line 149)
GatherDst == pC

\* gather C(:,j) from w (lines 146-150), one position per step
Gather ==
    /\ pc = "gather"
    /\ pC < pC_end
    /\ C' = [C EXCEPT !.x[GatherDst] = w[C.i[pC]]]
    /\ staleRead' = (staleRead \/ wclr[C.i[pC]] # j)
    /\ cxw' = [cxw EXCEPT ![GatherDst] = @ + 1]
    /\ cxorder' = (cxorder /\ GatherDst > cxlast)
    /\ cxlast' = GatherDst
    /\ nTouch' = nTouch + 1
    /\ pC' = pC + 1
    /\ IF pC + 1 < pC_end
       THEN UNCHANGED <<pc, jpos>>
       ELSE pc' = "col" /\ jpos' = jpos + 1
    /\ UNCHANGED <<inputs, w, failed, j, pB_start, pB_end, pC_start, pC_end, pB, pA,
                   pA_end, window, wclr, nWw, nLoc>>

Next ==
    \/ CheckInputs
    \/ NextColumn
    \/ ClearW
    \/ TrimAh
    \/ Lookup
    \/ MultAdd
    \/ Gather

Spec == Init /\ [][Next]_vars

\* ------------------------------------------------------------ claims, kernel
\* the slot of the vector that holds position n of M, and its column id
SlotOf(M, n) == CHOOSE s \in 0..(M.nvec - 1) : M.p[s] <= n /\ n < M.p[s + 1]
ColAt(M, n) == IF M.is_hyper THEN M.h[SlotOf(M, n)] ELSE SlotOf(M, n)
Stored(M, r, c) == \E n \in DOMAIN M.i : M.i[n] = r /\ ColAt(M, n) = c
ValAt(M, r, c) == M.x[CHOOSE n \in DOMAIN M.i : M.i[n] = r /\ ColAt(M, n) = c]
ColumnStores(M, c) == \E n \in DOMAIN M.i : ColAt(M, n) = c

\* the k that contribute to C(i,jj), ascending, and the terms they contribute
Contrib(i, jj) ==
    SortedSeq({k \in 0..(A0.vdim - 1) : Stored(A0, i, k) /\ Stored(B0, k, jj)})
Expected(i, jj) ==
    [n \in 1..Len(Contrib(i, jj)) |->
        <<ValAt(A0, i, Contrib(i, jj)[n]), ValAt(B0, Contrib(i, jj)[n], jj)>>]

\* C1: when the kernel finishes, every stored position (i,j) of C holds the
\* terms A(i,k)*B(k,j) of all k with A(i,k) and B(k,j) stored, accumulated
\* from the identity in ascending k; with no such k it holds the identity.
C1_ValuesCorrect ==
    pc = "done" =>
        \A n \in DOMAIN C.x : C.x[n] = Expected(C.i[n], ColAt(C, n))

C1_Witness ==
    /\ pc = "done"
    /\ \E n \in DOMAIN C.x : Len(C.x[n]) >= 2
    /\ \E n \in DOMAIN C.x : C.x[n] = IDENTITY /\ Contrib(C.i[n], ColAt(C, n)) = << >>

\* C2: no position of C.x is written twice, the writes come in strictly
\* increasing position, and when the kernel finishes every stored position has
\* been written exactly once.
C2_WrittenOnceInOrder ==
    /\ cxorder
    /\ \A n \in DOMAIN cxw : cxw[n] <= 1
    /\ pc = "done" => \A n \in DOMAIN cxw : cxw[n] = 1

C2_Witness ==
    /\ pc = "done"
    /\ Cardinality(DOMAIN cxw) >= 3
    /\ \E n, m \in DOMAIN cxw : ColAt(C, n) # ColAt(C, m)

\* C3: A, B and every field of C other than the value array are at every
\* moment what they were at entry.
C3_FrameUnchanged ==
    /\ A = A0
    /\ B = B0
    /\ [C EXCEPT !.x = C0.x] = C0

\* C4: a call whose inputs break the contract (aliased buffers, mismatched
\* dimensions, nvec(C) > nvec(B), C not finalized) never gets past the checks
\* at entry: it writes no workspace slot and no value of C and never finishes.
ContractBroken ==
    \/ aliased
    \/ C0.vdim # B0.vdim
    \/ C0.vlen # A0.vlen
    \/ A0.vdim # B0.vlen
    \/ C0.nvec > B0.nvec
    \/ C0.magic # MAGIC

C4_ViolationAborts ==
    ContractBroken =>
        /\ pc \in {"entry", "abort"}
        /\ nTouch = 0
        /\ \A n \in DOMAIN cxw : cxw[n] = 0

\* C5: no workspace slot is read unless the clear step of the column being
\* processed has set it.
C5_NoStaleRead == ~staleRead

C5_Witness ==
    /\ pc = "col"
    /\ pC_end > pC_start /\ cxlast = pC_end - 1
    /\ \E n \in DOMAIN wclr : wclr[n] # -1 /\ wclr[n] # j

\* C6: the step taken for a column whose C range is empty reads and writes no
\* workspace slot and locates no column of A; a call on a C that stores no
\* position touches the workspace and the locator not at all.
AtEmptyColumn ==
    /\ pc = "col"
    /\ jpos < NIter
    /\ VecRange(C, ColOf(jpos))[1] = VecRange(C, ColOf(jpos))[2]

C6_EmptyColumnUntouched ==
    /\ [][AtEmptyColumn =>
            /\ pc' = "col" /\ jpos' = jpos + 1
            /\ w' = w /\ nTouch' = nTouch /\ nWw' = nWw /\ nLoc' = nLoc]_vars
    /\ [](C0.p[C0.nvec] = 0 => nTouch = 0 /\ nWw = 0 /\ nLoc = 0)

C6_Witness ==
    /\ pc = "done"
    /\ nTouch > 0
    /\ \E jj \in 0..(B.vdim - 1) : ColumnStores(B, jj) /\ ~ColumnStores(C, jj)

\* C7: in the hypersparse path every probe for A's column k inside the window
\* [pleft, pright] gives the range a search of all of Ah gives, and the first
\* probe of a column starts from pleft = 0 and a right bound that no earlier
\* column has narrowed.
C7_LocateAgrees ==
    HYPER =>
        /\ probe[1] # -1 =>
             LET full == GB_lookup(A.is_hyper, A.h, A.p, 0, A.nvec - 1, probe[1])
             IN  probe[2] = full[2] /\ probe[3] = full[3]
        /\ (pc = "lookup" /\ pB = pB_start) =>
             /\ pleft = 0
             /\ pright <= A.nvec - 1
             /\ ~trimmed => pright = A.nvec - 1

C7_Witness ==
    /\ HYPER /\ A.is_hyper
    /\ pc = "multadd"
    /\ trimmed /\ pright < A.nvec - 1
    /\ probe[2] < probe[3]

\* C8 as stated: past the trim step of a column, the right bound has been
\* trimmed exactly when B is hypersparse and B(:,j) has more than two entries.
C8_TrimIffBHyper ==
    pc \in {"lookup", "multadd", "gather"} =>
        (trimmed <=> (B.is_hyper /\ pB_end - pB_start > 2))

\* C8 amended: past the trim step of a column, the right bound has been
\* trimmed exactly when A is hypersparse and B(:,j) has more than two entries;
\* otherwise it is nvec(A)-1 in the hypersparse path.
C8_TrimIffAHyper ==
    pc \in {"lookup", "multadd", "gather"} =>
        /\ trimmed <=> (A.is_hyper /\ pB_end - pB_start > 2)
        /\ (HYPER /\ ~trimmed) => pright = A.nvec - 1

C8_Witness ==
    /\ pc = "lookup"
    /\ trimmed /\ ~B.is_hyper
    /\ pright < A.nvec - 1

\* C9 as stated: the assertion bjnz > 0 never fails.
C9_BjnzNeverFails == failed # "bjnz"

\* C9 amended: the assertion bjnz > 0 never fails when C stores entries only in
\* columns in which B stores entries.
CWithinB == \A jj \in 0..(C0.vdim - 1) : ColumnStores(C0, jj) => ColumnStores(B0, jj)

C9_BjnzHoldsWithinB == CWithinB => failed # "bjnz"

C9_Witness ==
    /\ CWithinB
    /\ pc = "clear"
    /\ \E n \in DOMAIN C.i : Contrib(C.i[n], ColAt(C, n)) = << >>

\* ----------------------------------------------------------- record layer
\* SIValue_MakeVolatile: the value no longer owns its allocation
SIValue_MakeVolatile(e) == [e EXCEPT !.allocation = "M_VOLATILE"]

\* the clone's copy of an entry (Record_Clone, lines 54-66)
CloneEntry(e) == IF e.type = "REC_TYPE_SCALAR" THEN SIValue_MakeVolatile(e) ELSE e

\* what _RecordPropagateEntry leaves in the source (line 18)
PropagatedSrc(e) == IF e.type = "REC_TYPE_SCALAR" THEN SIValue_MakeVolatile(e) ELSE e

\* the allocations Record_FreeEntries frees for record r (lines 277-282):
\* SIValue_Free releases a scalar that owns its allocation
FreedBy(r) ==
    {recs[r][idx].ptr : idx \in {n \in Idxs : /\ recs[r][n].type = "REC_TYPE_SCALAR"
                                             /\ recs[r][n].allocation = "M_SELF"}}

Record_Clone(r, clone) ==
    /\ freedRecs = {}
    /\ r # clone
    /\ recs' = [recs EXCEPT ![clone] = [idx \in Idxs |-> CloneEntry(recs[r][idx])]]
    /\ UNCHANGED <<freedRecs, freed>>

Record_Merge(a, b) ==
    /\ freedRecs = {}
    /\ a # b
    /\ recs' = [recs EXCEPT ![a] =
                  [idx \in Idxs |-> IF recs[b][idx].type # "REC_TYPE_UNKNOWN"
                                    THEN recs[b][idx] ELSE recs[a][idx]]]
    /\ UNCHANGED <<freedRecs, freed>>

Record_TransferEntries(to, from) ==
    /\ freedRecs = {}
    /\ to # from
    /\ recs' = [recs EXCEPT
                  ![to] = [idx \in Idxs |-> IF recs[from][idx].type # "REC_TYPE_UNKNOWN"
                                            THEN recs[from][idx] ELSE recs[to][idx]],
                  ![from] = [idx \in Idxs |-> IF recs[from][idx].type # "REC_TYPE_UNKNOWN"
                                              THEN PropagatedSrc(recs[from][idx])
                                              ELSE recs[from][idx]]]
    /\ UNCHANGED <<freedRecs, freed>>

Record_FreeEntries(r) ==
    /\ r \notin freedRecs
    /\ freedRecs' = freedRecs \cup {r}
    /\ freed' = [a \in Allocs |-> IF a \in FreedBy(r) THEN freed[a] + 1 ELSE freed[a]]
    /\ UNCHANGED recs

kvars == <<A, B, C, aliased, HYPER, w, pc, failed, jpos, j, pB_start, pB_end,
           pC_start, pC_end, pC, pB, pA, pA_end, pleft, pright, A0, B0, C0,
           wclr, staleRead, cxw, cxlast, cxorder, nWw, nLoc, nTouch, trimmed,
           probe>>

\* records that each own their scalars; no kernel call is running
InitRecord ==
    /\ recs \in [Recs -> [Idxs -> {UnknownEntry, NodeEntry} \cup
                                   {ScalarEntry(a) : a \in Allocs}]]
    /\ \A r \in Recs, idx \in Idxs :
          recs[r][idx].type = "REC_TYPE_SCALAR" => recs[r][idx].ptr = AllocOf(r, idx)
    /\ freedRecs = {}
    /\ freed = [a \in Allocs |-> 0]
    /\ A = InputA({}, FALSE, "none") /\ B = InputB({}, FALSE)
    /\ C = InputC({}, FALSE, "none", MAGIC)
    /\ A0 = A /\ B0 = B /\ C0 = C
    /\ aliased = FALSE /\ HYPER = FALSE
    /\ w = [n \in 0..(VLen - 1) |-> Garbage]
    /\ wclr = [n \in 0..(VLen - 1) |-> -1]
    /\ pc = "idle" /\ failed = "none"
    /\ jpos = 0 /\ j = -1
    /\ pB_start = 0 /\ pB_end = 0 /\ pC_start = 0 /\ pC_end = 0
    /\ pC = 0 /\ pB = 0 /\ pA = 0 /\ pA_end = 0
    /\ pleft = 0 /\ pright = -1
    /\ staleRead = FALSE
    /\ cxw = [n \in DOMAIN C.x |-> 0]
    /\ cxlast = -1 /\ cxorder = TRUE
    /\ nWw = 0 /\ nLoc = 0 /\ nTouch = 0
    /\ trimmed = FALSE
    /\ probe = <<-1, -1, -1>>

NextRecord ==
    \/ \E r, clone \in Recs : Record_Clone(r, clone) /\ UNCHANGED kvars
    \/ \E a, b \in Recs : Record_Merge(a, b) /\ UNCHANGED kvars
    \/ \E to, from \in Recs : Record_TransferEntries(to, from) /\ UNCHANGED kvars
    \/ \E r \in Recs : Record_FreeEntries(r) /\ UNCHANGED kvars

SpecRecord == InitRecord /\ [][NextRecord]_vars

\* the records that own allocation a
Owners(a) ==
    {r \in Recs : \E idx \in Idxs : /\ recs[r][idx].type = "REC_TYPE_SCALAR"
                                    /\ recs[r][idx].ptr = a
                                    /\ recs[r][idx].allocation = "M_SELF"}

\* C10: whatever Record_Clone, Record_TransferEntries and Record_Merge have
\* done, every heap allocation is owned by at most one record, and freeing the
\* entries of every record frees no allocation twice.
C10_SingleOwner ==
    \A a \in Allocs : Cardinality(Owners(a)) <= 1 /\ freed[a] <= 1

====
